---- MODULE Spec2Model ----
(***************************************************************************)
(* Model of the faraday-data-processor core: the Change Detector           *)
(* (FileProcessor), the BaseProcessor.processFiles / processDataSource     *)
(* pipeline, and the Relational Mappers (DataMapper for SQLite,            *)
(* MySQLDataMapper for MySQL).                                             *)
(***************************************************************************)
EXTENDS Integers, Sequences, FiniteSets, TLC

(***************************************************************************)
(* Bounds of the model.                                                    *)
(***************************************************************************)
\* number of distinct non-empty file contents
MaxContent == 2
\* number of times the environment interferes in one behaviour: an input
\* file rewritten or deleted, a write of the cache file or a database call
\* that fails
MaxEnv == 1
\* number of processDataSource runs in one behaviour
MaxRuns == 2
\* number of processes (processor constructions) in one behaviour
MaxProcs == 2
\* size of the modelled digest space
HashSpace == 2

Paths == {"a.csv", "b.csv"}

\* a file is missing (0) or holds one of the contents 1..MaxContent
Missing == 0
FileStates == 0..MaxContent

\* a Map entry that is not there (Map.get returns undefined)
Absent == 0

\* the lists of paths handed to processFiles / getChangedFiles
PathLists ==
  {<<>>} \cup {<<p>> : p \in Paths} \cup {<<p, q>> : p \in Paths, q \in Paths}

Range(s) == {s[i] : i \in 1..Len(s)}

\* the file lists a run is given: a directory listing names no path twice;
\* the paths are interchangeable, so every list holds a.csv
RunLists ==
  {l \in PathLists : /\ Len(l) > 0
                     /\ Cardinality(Range(l)) = Len(l)
                     /\ "a.csv" \in Range(l)}

(***************************************************************************)
(* State.                                                                  *)
(***************************************************************************)
VARIABLES
  files,          \* the input files on disk: path -> FileStates
  cacheFile,      \* .cache/file-checksums.json: [state, data]
  checksumCache,  \* FileProcessor.checksumCache: path -> digest or Absent
  loadPc,         \* position of the load the constructor started
  pc,             \* position of the main flow
  filePaths,      \* the list getFiles returns, argument of processFiles
  incremental,    \* argument of the running processFiles
  useDb,          \* options.database
  changedFiles,   \* getChangedFiles: the list being built
  filesToProcess, \* processFiles: the list it iterates
  idx,            \* loop index of the running loop
  processed,      \* BaseProcessor.processed
  errors,         \* Len(BaseProcessor.errors)
  nextId,         \* the next identifier uuidv4 hands out
  dbOpen,         \* BaseProcessor.db # null
  dbType,         \* options.dbType: the backend of this behaviour
  db,             \* the committed database
  records,        \* the list of records the caller has assembled
  listHanded,     \* that list has been handed to insertRecords
  results,        \* the value returned by the last insertRecords
  txCommitted,    \* transactions the last insertRecords committed
  calls, adds,    \* counters bounding the mapper calls and the records
  env, runs, procs,           \* counters bounding the behaviour
  gcfStable,      \* history: no file or cache change during getChangedFiles
  markedThisRun,  \* history: paths marked by the running processFiles
  cycleSet,       \* history: paths marked and persisted, unmodified since
  handed,         \* history: this run's records were handed to the mapper
  runEnv,         \* history: the value of env when the run started
  storeLog,       \* history: one entry per run that stored its records
  prevCall,       \* history: list and database of the previous insertRecords
  lastOp,         \* history: the last deleteBySource call and what it returned
  buffer,         \* processLargeXmlFile: the working buffer
  totalRecordsFound,  \* processLargeXmlFile: entries counted
  recordCount,    \* processLargeXmlFile: entries sampled
  xmlRecords,     \* processLargeXmlFile: its records array
  streamPc,       \* the read stream and the promise of processLargeXmlFile
  chunksRead,     \* counter bounding the stream
  sampledAt,      \* history: totalRecordsFound at each push to records
  pipelineRecords,    \* what processFiles has of the file: [settled, records]
  fnIn, fnOut,    \* argument and result of the function a behaviour applies
  tables,         \* the tables that exist in the database
  ddl,            \* the last createTables or dropAllTables: [op, stmts, failed]
  lastRead        \* history: what processFile made of the current file

fpVars == <<files, cacheFile, checksumCache, loadPc, pc, filePaths,
            incremental, useDb, changedFiles, filesToProcess, idx,
            processed, errors, nextId, dbOpen, env, runs, procs,
            gcfStable, markedThisRun, cycleSet, handed, runEnv, storeLog>>
dbVars == <<dbType, db, records, listHanded, results, txCommitted, calls, adds,
            prevCall, lastOp>>
stVars == <<buffer, totalRecordsFound, recordCount, xmlRecords, streamPc,
            chunksRead, sampledAt, pipelineRecords>>
fnVars == <<fnIn, fnOut>>
schVars == <<tables, ddl>>
markVars == <<lastRead>>
auxVars == <<stVars, fnVars, schVars, markVars>>
vars == <<fpVars, dbVars, stVars, fnVars, schVars, markVars>>

(***************************************************************************)
(* FileProcessor (class FileProcessor, src/utils/dateNormalizer.js:110).   *)
(***************************************************************************)
\* crypto.createHash('md5').update(fileBuffer).digest('hex'): a digest of
\* the content; distinct contents may share a digest.
MD5(content) == 1 + (content % HashSpace)

EmptyCache == [p \in Paths |-> Absent]

\* a variant of hasFileChanged that takes a path without a cached digest
\* for unchanged
HasFileChangedCachedOnly(content, cache, p) ==
  cache[p] # Absent /\ MD5(content) # cache[p]

\* hasFileChanged: currentChecksum !== cachedChecksum
HasFileChanged(content, cache, p) == MD5(content) # cache[p]

(***************************************************************************)
(* Records handed to the Relational Mapper.  A record carries the fields   *)
(* the mappers look at:                                                    *)
(*   timestamp        0 when null, else a canonical timestamp              *)
(*   metric           it has a metric field of its dataType (steps, ...)   *)
(*   condition        it has a condition / symptoms / severity field       *)
(*   medication_name  it has a medication_name                             *)
(*   completed, medication_taken   the kind of value of that field         *)
(***************************************************************************)
\* number of record identifiers of directly assembled lists
MaxId == 2
\* number of records the callers assemble in one behaviour
MaxRecs == 3
\* number of mapper calls in one behaviour
MaxCalls == 2

Null == 0
DataTypes == {"fitness", "health", "sleep", "habits", "location", "mixed"}
Sources == {"nike_plus", "gyroscope"}
\* kinds of JavaScript values a field can hold
Kinds == {"undefined", "boolean", "number"}

\* the child tables of the SQLite schema (locations) and of the MySQL
\* schema (location_data)
ChildTables == {"fitness_metrics", "health_vitals", "sleep_sessions", "habits",
                "symptoms", "medications", "locations", "location_data"}

Rec(i, ts, src, dt, m, c, mn, cp, mt) ==
  [id |-> i, timestamp |-> ts, source |-> src, dataType |-> dt, metric |-> m,
   condition |-> c, medication_name |-> mn, completed |-> cp,
   medication_taken |-> mt]

\* the record shapes lists are assembled from: what the processors and the
\* repository's database tests produce
RecordShapes ==
  { Rec(0, 1, "nike_plus", "fitness", TRUE, FALSE, FALSE, "undefined", "undefined"),
    Rec(0, 1, "gyroscope", "fitness", FALSE, FALSE, FALSE, "undefined", "undefined"),
    Rec(0, 1, "gyroscope", "health", TRUE, TRUE, TRUE, "undefined", "number"),
    Rec(0, 1, "nike_plus", "habits", TRUE, FALSE, FALSE, "boolean", "undefined") }

RecordSpace == {[s EXCEPT !.id = i] : s \in RecordShapes, i \in 1..MaxId}

(***************************************************************************)
(* The database: health_records is a set of rows keyed by id, each child   *)
(* table a set of rows keyed by record_id; data tells whether the row has  *)
(* a non-null column besides its key and its defaults.                     *)
(***************************************************************************)
EmptyDb == [hr |-> {}, ch |-> [t \in ChildTables |-> {}]]

HrRow(r, dateOnly) ==
  [id |-> r.id, timestamp |-> r.timestamp, date_only |-> dateOnly,
   source |-> r.source, data_type |-> r.dataType]

ChildRow(r, d) == [record_id |-> r.id, data |-> d]

\* INSERT OR REPLACE INTO health_records: the row with that id is replaced
InsertOrReplaceHr(tbl, row) == {x \in tbl : x.id # row.id} \cup {row}

\* INSERT OR REPLACE INTO <child table>: keyed by record_id
InsertOrReplaceCh(tbl, row) ==
  {x \in tbl : x.record_id # row.record_id} \cup {row}

\* DataMapper.extractDateOnly
ExtractDateOnly(timestamp) == IF timestamp = Null THEN Null ELSE timestamp

\* better-sqlite3 binds numbers, strings, bigints, buffers and null
\* (undefined as null); run() throws a TypeError on any other value
Bindable(kind) == kind # "boolean"

\* record.completed !== undefined ? record.completed : true
CompletedParam(r) ==
  IF r.completed # "undefined" THEN r.completed ELSE "boolean"

\* record.medication_taken || false
MedicationTakenParam(r) ==
  IF r.medication_taken = "number" THEN "number" ELSE "boolean"

\* the switch of insertSingleRecord: the table of a dataType, if any
TypeTable(dataType) ==
  CASE dataType = "fitness" -> "fitness_metrics"
    [] dataType = "health" -> "health_vitals"
    [] dataType = "sleep" -> "sleep_sessions"
    [] dataType = "habits" -> "habits"
    [] OTHER -> "none"

\* does the insert<Type>Record of the switch throw on this record
TypeInsertThrows(r) ==
  r.dataType = "habits" /\ ~Bindable(CompletedParam(r))

\* if (record.condition || record.symptoms || record.severity)
HasSymptomFields(r) == r.condition

InsertChild(d, t, r, data) ==
  [d EXCEPT !.ch[t] = InsertOrReplaceCh(@, ChildRow(r, data))]

\* insertSingleRecord with a plain INSERT INTO health_records: an id that is
\* already there is a UNIQUE constraint failure
InsertSingleRecordPlainInsert(d, r) ==
  LET dateOnly == ExtractDateOnly(r.timestamp)
      d1 == [d EXCEPT !.hr = @ \cup {HrRow(r, dateOnly)}]
      t == TypeTable(r.dataType)
      d2 == IF t = "none" THEN d1 ELSE InsertChild(d1, t, r, r.metric)
      d3 == IF HasSymptomFields(r) THEN InsertChild(d2, "symptoms", r, TRUE)
            ELSE d2
      d4 == IF r.medication_name THEN InsertChild(d3, "medications", r, TRUE)
            ELSE d3
  IN  IF dateOnly = Null THEN [db |-> d, error |-> "NOT NULL constraint failed"]
      ELSE IF \E x \in d.hr : x.id = r.id
           THEN [db |-> d, error |-> "UNIQUE constraint failed"]
      ELSE IF t # "none" /\ TypeInsertThrows(r)
           THEN [db |-> d1, error |-> "TypeError"]
      ELSE IF HasSymptomFields(r) /\ ~Bindable(MedicationTakenParam(r))
           THEN [db |-> d2, error |-> "TypeError"]
      ELSE [db |-> d4, error |-> "none"]

\* a variant of insertSingleRecord that writes the child rows of a record
\* and never its health_records row
InsertSingleRecordChildOnly(d, r) ==
  LET dateOnly == ExtractDateOnly(r.timestamp)
      t == TypeTable(r.dataType)
      d2 == IF t = "none" THEN d ELSE InsertChild(d, t, r, r.metric)
      d3 == IF HasSymptomFields(r) THEN InsertChild(d2, "symptoms", r, TRUE)
            ELSE d2
      d4 == IF r.medication_name THEN InsertChild(d3, "medications", r, TRUE)
            ELSE d3
  IN  IF dateOnly = Null THEN [db |-> d, error |-> "NOT NULL constraint failed"]
      ELSE IF t # "none" /\ TypeInsertThrows(r)
           THEN [db |-> d, error |-> "TypeError"]
      ELSE IF HasSymptomFields(r) /\ ~Bindable(MedicationTakenParam(r))
           THEN [db |-> d2, error |-> "TypeError"]
      ELSE [db |-> d4, error |-> "none"]

\* DataMapper.insertSingleRecord: the statements run in order and the first
\* one that throws ends the call, the earlier ones staying in the transaction
InsertSingleRecord(d, r) ==
  LET dateOnly == ExtractDateOnly(r.timestamp)
      d1 == [d EXCEPT !.hr = InsertOrReplaceHr(@, HrRow(r, dateOnly))]
      t == TypeTable(r.dataType)
      d2 == IF t = "none" THEN d1 ELSE InsertChild(d1, t, r, r.metric)
      d3 == IF HasSymptomFields(r) THEN InsertChild(d2, "symptoms", r, TRUE)
            ELSE d2
      d4 == IF r.medication_name THEN InsertChild(d3, "medications", r, TRUE)
            ELSE d3
  IN  IF dateOnly = Null THEN [db |-> d, error |-> "NOT NULL constraint failed"]
      ELSE IF t # "none" /\ TypeInsertThrows(r)
           THEN [db |-> d1, error |-> "TypeError"]
      ELSE IF HasSymptomFields(r) /\ ~Bindable(MedicationTakenParam(r))
           THEN [db |-> d2, error |-> "TypeError"]
      ELSE [db |-> d4, error |-> "none"]

EmptyResults == [totalRecords |-> 0, inserted |-> 0, errors |-> 0,
                 errorDetails |-> <<>>]

\* the loop without its try/catch: the first record that throws ends it
RECURSIVE InsertLoopNoCatch(_, _, _, _)
InsertLoopNoCatch(d, recs, i, res) ==
  IF i > Len(recs) THEN [db |-> d, results |-> res]
  ELSE LET o == InsertSingleRecord(d, recs[i])
       IN  IF o.error # "none"
           THEN [db |-> o.db,
                 results |-> [res EXCEPT !.errors = @ + 1,
                              !.errorDetails = Append(@,
                                 [recordId |-> recs[i].id, error |-> o.error])]]
           ELSE InsertLoopNoCatch(o.db, recs, i + 1,
                                  [res EXCEPT !.inserted = @ + 1])

\* the loop of the transaction function of DataMapper.insertRecords
RECURSIVE InsertLoop(_, _, _, _)
InsertLoop(d, recs, i, res) ==
  IF i > Len(recs) THEN [db |-> d, results |-> res]
  ELSE LET o == InsertSingleRecord(d, recs[i])
       IN  IF o.error # "none"
           THEN InsertLoop(o.db, recs, i + 1,
                  [res EXCEPT !.errors = @ + 1,
                              !.errorDetails = Append(@,
                                 [recordId |-> recs[i].id, error |-> o.error])])
           ELSE InsertLoop(o.db, recs, i + 1, [res EXCEPT !.inserted = @ + 1])

\* DataMapper.insertRecords(records): one transaction around the loop, which
\* commits because the loop lets no exception out
InsertRecords(d, recs) ==
  LET o == InsertLoop(d, recs, 1, [EmptyResults EXCEPT !.totalRecords = Len(recs)])
  IN  [db |-> o.db, results |-> o.results, tx |-> 1]

(***************************************************************************)
(* MySQLDataMapper (src/database/mysqlDataMapper.js).                      *)
(***************************************************************************)
\* this.batchSize = 1000, scaled to the lists of the model
batchSize == 2

MyChildTables == {"fitness_metrics", "health_vitals", "sleep_sessions",
                  "location_data"}

\* what can go wrong in the server during one insertRecords call: nothing,
\* acquiring the transaction, committing it, or a statement on one table
Faults == {"none", "commit", "fitness_metrics"}

\* the '?' of one row of the VALUES list of batchInsert<Table>
Placeholders(t) ==
  CASE t = "health_records" -> 8
    [] t = "fitness_metrics" -> 16
    [] t = "health_vitals" -> 20
    [] t = "sleep_sessions" -> 7
    [] t = "location_data" -> 10

\* the values flatMap hands over for one row of batchInsert<Table>
ValuesPerRow(t) ==
  CASE t = "health_records" -> 8
    [] t = "fitness_metrics" -> 16
    [] t = "health_vitals" -> 21
    [] t = "sleep_sessions" -> 8
    [] t = "location_data" -> 10

\* connection.execute(sql, values) of batchInsert<Table> rejects
ExecuteFails(t, rows, fault) ==
  \/ fault = t
  \/ Placeholders(t) # ValuesPerRow(t)
  \/ t = "health_records" /\ \E i \in 1..Len(rows) : rows[i].date_only = Null

\* the switch of insertRecordBatch
MyTypeTable(dataType) ==
  CASE dataType = "fitness" -> "fitness_metrics"
    [] dataType = "health" -> "health_vitals"
    [] dataType = "sleep" -> "sleep_sessions"
    [] dataType = "location" -> "location_data"
    [] OTHER -> "none"

\* mapToFitnessMetric, mapToHealthVital, mapToSleepSession, mapToLocationData:
\* return hasData ? { record_id: record.id, ... } : null
MapToChild(r) == [hasData |-> r.metric, row |-> ChildRow(r, TRUE)]

\* mapToHealthRecord
MapToHealthRecord(r) ==
  HrRow(r, IF r.timestamp # Null THEN r.timestamp ELSE Null)

\* INSERT ... ON DUPLICATE KEY UPDATE timestamp, date_only, processed_at,
\* raw_data of health_records, row by row
RECURSIVE BatchUpsertHr(_, _, _)
BatchUpsertHr(tbl, rows, i) ==
  IF i > Len(rows) THEN tbl
  ELSE LET row == rows[i]
           old == {x \in tbl : x.id = row.id}
           upd == {[x EXCEPT !.timestamp = row.timestamp,
                             !.date_only = row.date_only] : x \in old}
       IN  BatchUpsertHr(IF old = {} THEN tbl \cup {row}
                         ELSE (tbl \ old) \cup upd, rows, i + 1)

\* INSERT ... ON DUPLICATE KEY UPDATE of a child table, row by row
RECURSIVE BatchUpsertCh(_, _, _)
BatchUpsertCh(tbl, rows, i) ==
  IF i > Len(rows) THEN tbl
  ELSE BatchUpsertCh(InsertOrReplaceCh(tbl, rows[i]), rows, i + 1)

\* the rows insertRecordBatch collects for one child table
RowsFor(t, batch) ==
  LET sel == SelectSeq(batch, LAMBDA r : MyTypeTable(r.dataType) = t
                                          /\ MapToChild(r).hasData)
  IN  [i \in 1..Len(sel) |-> MapToChild(sel[i]).row]

\* the order in which insertRecordBatch writes the child tables
MyChildOrder == <<"fitness_metrics", "health_vitals", "sleep_sessions",
                  "location_data">>

\* the child statements of insertRecordBatch from the k-th on: the first
\* one that rejects ends the try block
RECURSIVE InsertChildBatches(_, _, _, _)
InsertChildBatches(d, batch, k, fault) ==
  IF k > Len(MyChildOrder) THEN [db |-> d, error |-> "none"]
  ELSE LET t == MyChildOrder[k]
           rows == RowsFor(t, batch)
       IN  IF Len(rows) = 0 THEN InsertChildBatches(d, batch, k + 1, fault)
           ELSE IF ExecuteFails(t, rows, fault)
                THEN [db |-> d, error |-> "Batch insert failed"]
           ELSE InsertChildBatches(
                  [d EXCEPT !.ch[t] = BatchUpsertCh(@, rows, 1)],
                  batch, k + 1, fault)

\* MySQLDataMapper.insertRecordBatch(records, connection)
InsertRecordBatch(d, batch, fault) ==
  LET healthRecords == [i \in 1..Len(batch) |-> MapToHealthRecord(batch[i])]
      res0 == [inserted |-> 0, errors |-> 0, errorDetails |-> <<>>]
      failed(res) == [res EXCEPT !.errors = Len(batch),
                        !.errorDetails = Append(@,
                           [recordId |-> Null, error |-> "Batch insert failed"])]
  IN  IF ExecuteFails("health_records", healthRecords, fault)
      THEN [db |-> d, results |-> failed(res0)]
      ELSE LET d1 == [d EXCEPT !.hr = BatchUpsertHr(@, healthRecords, 1)]
               res1 == [res0 EXCEPT !.inserted = Len(batch)]
               o == InsertChildBatches(d1, batch, 1, fault)
           IN  IF o.error # "none" THEN [db |-> o.db, results |-> failed(res1)]
               ELSE [db |-> o.db, results |-> res1]

\* the loop of the transaction function of MySQLDataMapper.insertRecords
RECURSIVE MyBatchLoop(_, _, _, _, _)
MyBatchLoop(d, recs, i, res, fault) ==
  IF i > Len(recs) THEN [db |-> d, results |-> res]
  ELSE LET last == IF i + batchSize - 1 < Len(recs) THEN i + batchSize - 1
                   ELSE Len(recs)
           batch == SubSeq(recs, i, last)
           o == InsertRecordBatch(d, batch, fault)
       IN  MyBatchLoop(o.db, recs, i + batchSize,
             [res EXCEPT !.inserted = @ + o.results.inserted,
                         !.errors = @ + o.results.errors,
                         !.errorDetails = @ \o o.results.errorDetails],
             fault)

\* MySQLDataMapper.insertRecords(records) over MySQLConnection.transaction:
\* one transaction for the whole list, rolled back when the function throws
MyInsertRecords(d, recs, fault) ==
  LET res0 == [EmptyResults EXCEPT !.totalRecords = Len(recs)]
      o == MyBatchLoop(d, recs, 1, res0, fault)
      txFailed(res) == [res EXCEPT !.errors = Len(recs),
                          !.errorDetails = Append(@,
                             [recordId |-> Null, error |-> "Transaction failed"])]
  IN  IF Len(recs) = 0 THEN [db |-> d, results |-> res0, tx |-> 0]
      ELSE IF fault = "begin" THEN [db |-> d, results |-> txFailed(res0), tx |-> 0]
      ELSE IF fault = "commit"
           THEN [db |-> d, results |-> txFailed(o.results), tx |-> 0]
      ELSE [db |-> o.db, results |-> o.results, tx |-> 1]

\* the tables deleteBySource clears before it deletes the parent rows
DeleteTables == {"fitness_metrics", "health_vitals", "sleep_sessions", "habits",
                 "symptoms", "medications"}

\* a variant of deleteBySource that deletes the parent rows only
DeleteBySourceParentOnly(d, source) ==
  LET hr2 == {x \in d.hr : x.source # source}
  IN  [db |-> [d EXCEPT !.hr = hr2],
       ret |-> [deletedRecords |-> Cardinality(d.hr) - Cardinality(hr2),
                deletedRelated |-> 0],
       tx |-> 1]

\* DataMapper.deleteBySource: in one transaction, the ids of the source's
\* rows, DELETE FROM <table> WHERE record_id = ? for the six tables, then
\* DELETE FROM health_records WHERE source = ?. With foreign_keys ON the
\* last statement fails, and the transaction rolls back, if a row of another
\* table still refers to one of the ids.
DeleteBySource(d, source) ==
  LET recordIds == {x.id : x \in {y \in d.hr : y.source = source}}
      gone(t) == {x \in d.ch[t] : x.record_id \in recordIds}
      ch2 == [t \in ChildTables |->
                IF t \in DeleteTables THEN d.ch[t] \ gone(t) ELSE d.ch[t]]
      hr2 == {x \in d.hr : x.source # source}
      related == Cardinality({<<t, x>> \in UNION {{t} \X gone(t) : t \in DeleteTables} : TRUE})
  IN  IF \E t \in ChildTables \ DeleteTables : gone(t) # {}
      THEN [db |-> d, ret |-> [deletedRecords |-> 0, deletedRelated |-> 0],
            tx |-> 0]
      ELSE [db |-> [hr |-> hr2, ch |-> ch2],
            ret |-> [deletedRecords |-> Cardinality(d.hr) - Cardinality(hr2),
                     deletedRelated |-> related],
            tx |-> 1]

NoOp == [op |-> "none", source |-> "none", before |-> EmptyDb,
         after |-> EmptyDb,
         ret |-> [deletedRecords |-> 0, deletedRelated |-> 0], tx |-> 0]

NoCall == [recs |-> <<>>, db |-> EmptyDb, after |-> EmptyDb, made |-> FALSE,
           fault |-> "none", repeat |-> FALSE]

(***************************************************************************)
(* The callers of the mappers.                                             *)
(***************************************************************************)
dbCallVars == <<db, results, txCommitted, calls, prevCall, lastOp>>

UsedIds ==
  {records[i].id : i \in 1..Len(records)}
    \cup {prevCall.recs[i].id : i \in 1..Len(prevCall.recs)}

\* the caller appends a record to the list it will hand over; uuids are
\* opaque, so a record carries an id already in use or the next unused one
AddRecord(r) ==
  /\ adds < MaxRecs
  /\ ~listHanded
  /\ \A i \in 1..(r.id - 1) : i \in UsedIds
  /\ records' = Append(records, r)
  /\ adds' = adds + 1
  /\ UNCHANGED <<dbCallVars, dbType, listHanded>>

\* the caller starts a new list
NewList ==
  /\ listHanded
  /\ calls < MaxCalls
  /\ adds < MaxRecs
  /\ records' = <<>>
  /\ listHanded' = FALSE
  /\ UNCHANGED <<dbCallVars, adds, dbType>>

\* what a mapper call leaves behind; repeat: the call before it was made
\* with the same list, the server failed in neither and nothing touched the
\* database in between
Returned(o, fault) ==
  /\ db' = o.db
  /\ results' = o.results
  /\ txCommitted' = o.tx
  /\ calls' = calls + 1
  /\ prevCall' = [recs |-> records, db |-> db, after |-> o.db, made |-> TRUE,
                  fault |-> fault,
                  repeat |-> prevCall.made /\ prevCall.recs = records
                             /\ prevCall.after = db /\ prevCall.fault = "none"
                             /\ fault = "none"]
  /\ listHanded' = TRUE
  /\ UNCHANGED <<records, adds, dbType, lastOp>>

\* dataMapper.insertRecords(records) on the SQLite mapper
InsertRecordsCall ==
  /\ dbType = "sqlite"
  /\ calls < MaxCalls
  /\ Returned(InsertRecords(db, records), "none")

\* mysqlDataMapper.insertRecords(records)
MyInsertRecordsCall(fault) ==
  /\ dbType = "mysql"
  /\ calls < MaxCalls
  /\ Returned(MyInsertRecords(db, records, fault), fault)

\* dataMapper.deleteBySource(source) on the SQLite mapper; the database is
\* no longer as the last insertRecords left it
DeleteBySourceCall(source) ==
  /\ dbType = "sqlite"
  /\ calls < MaxCalls
  /\ LET o == DeleteBySource(db, source)
     IN  /\ db' = o.db
         /\ txCommitted' = o.tx
         /\ lastOp' = [op |-> "delete", source |-> source, before |-> db,
                       after |-> o.db, ret |-> o.ret, tx |-> o.tx]
  /\ calls' = calls + 1
  /\ prevCall' = NoCall
  /\ UNCHANGED <<results, records, adds, listHanded, dbType>>

FpIdle ==
  /\ files = [p \in Paths |-> Missing]
  /\ cacheFile = [state |-> "missing", data |-> EmptyCache]
  /\ checksumCache = EmptyCache
  /\ loadPc = "none"
  /\ pc = "idle"
  /\ filePaths = <<>>
  /\ incremental = FALSE
  /\ useDb = FALSE
  /\ changedFiles = <<>>
  /\ filesToProcess = <<>>
  /\ idx = 1
  /\ processed = <<>>
  /\ errors = 0
  /\ nextId = 1
  /\ dbOpen = FALSE
  /\ env = 0 /\ runs = 0 /\ procs = 0
  /\ gcfStable = TRUE
  /\ markedThisRun = {}
  /\ cycleSet = {}
  /\ handed = FALSE
  /\ runEnv = 0
  /\ storeLog = <<>>

DbFresh ==
  /\ db = EmptyDb
  /\ records = <<>>
  /\ listHanded = FALSE
  /\ results = EmptyResults
  /\ txCommitted = 0
  /\ calls = 0
  /\ adds = 0
  /\ prevCall = NoCall
  /\ lastOp = NoOp

(***************************************************************************)
(* The schema: DatabaseConnection.createTables / dropAllTables             *)
(* (src/database/schema.js:368) and those of MySQLConnection.              *)
(***************************************************************************)
\* a variant of the order with the parent table last
getTableCreationOrderParentLast ==
  <<"fitness_metrics", "health_vitals", "sleep_sessions", "habits",
    "symptoms", "medications", "locations", "health_records">>

\* DatabaseSchema.getTableCreationOrder
getTableCreationOrder ==
  <<"health_records", "fitness_metrics", "health_vitals", "sleep_sessions",
    "habits", "symptoms", "medications", "locations">>

\* the CREATE TABLE statements of MySQLConnection.createTables, in order
MyCreateOrder ==
  <<"health_records", "fitness_metrics", "health_vitals", "sleep_sessions",
    "location_data">>

\* const tables = [...] of MySQLConnection.dropAllTables
MyDropOrder ==
  <<"location_data", "sleep_sessions", "health_vitals", "fitness_metrics",
    "health_records">>

\* Array.prototype.reverse
Reverse(s) == [i \in 1..Len(s) |-> s[Len(s) + 1 - i]]

CreateOrder(type) ==
  IF type = "sqlite" THEN getTableCreationOrder ELSE MyCreateOrder

DropOrder(type) ==
  IF type = "sqlite" THEN Reverse(getTableCreationOrder) ELSE MyDropOrder

NoDdl == [op |-> "none", stmts |-> <<>>, failed |-> FALSE]

\* CREATE TABLE IF NOT EXISTS t: MySQL refuses a table whose foreign key
\* names a table that does not exist, SQLite accepts it
CreateFails(type, t, ts) ==
  type = "mysql" /\ t # "health_records" /\ "health_records" \notin ts

\* the loop of createTables from its i-th statement: the tables that exist
\* afterwards, the statements executed and whether one threw
RECURSIVE CreateLoop(_, _, _, _, _)
CreateLoop(type, order, i, ts, done) ==
  IF i > Len(order) THEN [tables |-> ts, stmts |-> done, failed |-> FALSE]
  ELSE IF CreateFails(type, order[i], ts)
       THEN [tables |-> ts, stmts |-> Append(done, order[i]), failed |-> TRUE]
       ELSE CreateLoop(type, order, i + 1, ts \cup {order[i]},
                       Append(done, order[i]))

\* the rows of table t are gone
WithoutTable(d, t) ==
  IF t = "health_records" THEN [d EXCEPT !.hr = {}]
  ELSE [d EXCEPT !.ch[t] = {}]

\* DROP TABLE IF EXISTS health_records while rows of an existing table
\* refer to it (SQLite), or while a table with a foreign key to it exists
\* (MySQL), is refused
DropFails(type, t, ts, d) ==
  /\ t = "health_records" /\ t \in ts
  /\ IF type = "mysql" THEN ts \ {t} # {}
     ELSE \E c \in ChildTables : d.ch[c] # {}

\* the loop of dropAllTables from its i-th statement
RECURSIVE DropLoop(_, _, _, _, _, _)
DropLoop(type, order, i, ts, d, done) ==
  IF i > Len(order)
  THEN [tables |-> ts, db |-> d, stmts |-> done, failed |-> FALSE]
  ELSE IF DropFails(type, order[i], ts, d)
       THEN [tables |-> ts, db |-> d, stmts |-> Append(done, order[i]),
             failed |-> TRUE]
       ELSE DropLoop(type, order, i + 1, ts \ {order[i]},
                     WithoutTable(d, order[i]), Append(done, order[i]))

\* the schema has been created and no statement on it is recorded
SchIdle ==
  /\ tables = Range(CreateOrder(dbType))
  /\ ddl = NoDdl

\* no stream is open and no function is being applied
StIdle ==
  /\ buffer = <<>>
  /\ totalRecordsFound = 0
  /\ recordCount = 0
  /\ xmlRecords = <<>>
  /\ streamPc = "none"
  /\ chunksRead = 0
  /\ sampledAt = <<>>
  /\ pipelineRecords = [settled |-> FALSE, records |-> <<>>]

FnIdle == fnIn = <<>> /\ fnOut = <<>>

\* processFile has read nothing
NoRead == [path |-> "none", content |-> Missing, outcome |-> "none"]

MarkIdle == lastRead = NoRead

AuxIdle == StIdle /\ FnIdle /\ SchIdle /\ MarkIdle

\* a mapper of either backend on a freshly created schema
InitDb == FpIdle /\ DbFresh /\ dbType \in {"sqlite", "mysql"} /\ AuxIdle

NextDb ==
  \/ \E r \in RecordSpace : AddRecord(r) /\ UNCHANGED <<fpVars, auxVars>>
  \/ NewList /\ UNCHANGED <<fpVars, auxVars>>
  \/ InsertRecordsCall /\ UNCHANGED <<fpVars, auxVars>>
  \/ \E fault \in Faults : MyInsertRecordsCall(fault) /\ UNCHANGED <<fpVars, auxVars>>
  \/ \E source \in Sources : DeleteBySourceCall(source) /\ UNCHANGED <<fpVars, auxVars>>

SpecDb == InitDb /\ [][NextDb]_vars

(***************************************************************************)
(* Properties of the Relational Mappers.                                   *)
(***************************************************************************)
\* insertSingleRecord throws on this record
Throws(r) == InsertSingleRecord(EmptyDb, r).error # "none"

ParentIn(d, id) == \E x \in d.hr : x.id = id
ChildIn(d, t, id) == \E x \in d.ch[t] : x.record_id = id
ChildTablesOf(d, id) == {t \in ChildTables : ChildIn(d, t, id)}

\* every row insertSingleRecord writes for r is in the database
RowsCommitted(d, r) ==
  /\ ParentIn(d, r.id)
  /\ TypeTable(r.dataType) # "none" => ChildIn(d, TypeTable(r.dataType), r.id)
  /\ HasSymptomFields(r) => ChildIn(d, "symptoms", r.id)
  /\ r.medication_name => ChildIn(d, "medications", r.id)

DistinctIds(recs) ==
  \A i, j \in 1..Len(recs) : recs[i].id = recs[j].id => i = j

\* C4: DataMapper.insertRecords returns whatever the records are: each
\* record whose insertSingleRecord throws is counted in errors and has its
\* own errorDetails entry with its id and the message, in order, and every
\* other record of the list is counted in inserted and has its rows in the
\* database the one transaction of the call committed.
C4_PerRecordErrors ==
  (prevCall.made /\ dbType = "sqlite") =>
    LET recs == prevCall.recs
        bad == SelectSeq(recs, Throws)
    IN  /\ results.totalRecords = Len(recs)
        /\ results.errors = Len(bad)
        /\ results.inserted = Len(recs) - Len(bad)
        /\ Len(results.errorDetails) = Len(bad)
        /\ \A i \in 1..Len(bad) :
             /\ results.errorDetails[i].recordId = bad[i].id
             /\ results.errorDetails[i].error # "none"
        /\ txCommitted = 1
        /\ \A i \in 1..Len(recs) : ~Throws(recs[i]) => RowsCommitted(db, recs[i])

\* C4 witness: a call whose list has a throwing record followed by a record
\* that was inserted
C4_Witness ==
  /\ prevCall.made /\ dbType = "sqlite"
  /\ results.errors >= 1 /\ results.inserted >= 1
  /\ \E i, j \in 1..Len(prevCall.recs) :
       /\ i < j
       /\ Throws(prevCall.recs[i])
       /\ ~Throws(prevCall.recs[j])
       /\ RowsCommitted(db, prevCall.recs[j])

TableCounts(d) ==
  [hr |-> Cardinality(d.hr),
   ch |-> [t \in ChildTables |-> Cardinality(d.ch[t])]]

\* C5: a second insertRecords with the same list, on either backend, leaves
\* the row count of health_records and of every child table as the first
\* call left it and reports no duplicate-key error.
C5_Idempotent ==
  prevCall.repeat =>
    /\ TableCounts(db) = TableCounts(prevCall.db)
    /\ \A i \in 1..Len(results.errorDetails) :
         results.errorDetails[i].error # "UNIQUE constraint failed"

\* C5 witness: a repeated call over a list that left parent and child rows
C5_Witness ==
  /\ prevCall.repeat
  /\ results.inserted >= 2
  /\ Cardinality(db.hr) >= 2
  /\ \E t \in ChildTables : db.ch[t] # {}

Ceil(n, k) == (n + k - 1) \div k

\* C6: insertRecords commits one transaction per batch of batchSize
\* records: a call that inserted all n records of its list without error
\* committed ceil(n / batchSize) transactions.
C6_TransactionPerBatch ==
  (prevCall.made /\ Len(prevCall.recs) >= 1 /\ results.errors = 0
     /\ results.inserted = Len(prevCall.recs)) =>
    txCommitted = Ceil(Len(prevCall.recs), batchSize)

\* the batches MySQLDataMapper.insertRecords cuts the list into
Batches(recs) ==
  {SubSeq(recs, i, IF i + batchSize - 1 < Len(recs) THEN i + batchSize - 1
                   ELSE Len(recs)) :
     i \in {j \in 1..Len(recs) : (j - 1) % batchSize = 0}}

\* every row insertRecordBatch means to write for the batch is there
BatchAllCommitted(d, batch) ==
  \A i \in 1..Len(batch) :
    LET r == batch[i]
    IN  /\ ParentIn(d, r.id)
        /\ (MyTypeTable(r.dataType) # "none" /\ MapToChild(r).hasData)
             => ChildIn(d, MyTypeTable(r.dataType), r.id)

\* no row of the batch is there
BatchNoneCommitted(d, batch) ==
  \A i \in 1..Len(batch) :
    ~ParentIn(d, batch[i].id) /\ ChildTablesOf(d, batch[i].id) = {}

\* C7: after MySQLDataMapper.insertRecords returns, every batch of the list
\* is in the database with all its parent and child rows or with none of
\* them (lists of distinct ids written to an empty database).
C7_BatchAtomic ==
  (prevCall.made /\ dbType = "mysql" /\ prevCall.db = EmptyDb
     /\ DistinctIds(prevCall.recs)) =>
    \A b \in Batches(prevCall.recs) :
      BatchAllCommitted(db, b) \/ BatchNoneCommitted(db, b)

\* the type-specific table the claim gives a dataType
NamedTypeTable(dataType) ==
  CASE dataType = "fitness" -> "fitness_metrics"
    [] dataType = "health" -> "health_vitals"
    [] dataType = "sleep" -> "sleep_sessions"
    [] dataType = "habits" -> "habits"
    [] dataType = "location" ->
         IF dbType = "mysql" THEN "location_data" ELSE "locations"

\* C9: after a call that reported no error, on an empty database and a list
\* of distinct ids, every record of a dataType with a table has its parent
\* row and rows in exactly: the table of its dataType, symptoms iff it has a
\* condition / symptoms / severity field, medications iff it has a
\* medication_name.
C9_ChildTablesByType ==
  (prevCall.made /\ prevCall.db = EmptyDb /\ results.errors = 0
     /\ DistinctIds(prevCall.recs)) =>
    \A i \in 1..Len(prevCall.recs) :
      LET r == prevCall.recs[i]
      IN  r.dataType \in {"fitness", "health", "sleep", "habits", "location"} =>
            /\ ParentIn(db, r.id)
            /\ ChildTablesOf(db, r.id) =
                 {NamedTypeTable(r.dataType)}
                   \cup (IF HasSymptomFields(r) THEN {"symptoms"} ELSE {})
                   \cup (IF r.medication_name THEN {"medications"} ELSE {})

\* C10: in every database state every row of every child table comes from
\* a record that carried a non-null field of that table.
C10_ChildRowsCarryData ==
  \A t \in ChildTables : \A x \in db.ch[t] : x.data

\* the ids of the rows of health_records of a source
IdsOfSource(d, source) == {x.id : x \in {y \in d.hr : y.source = source}}

\* C11: deleteBySource(source) runs in one transaction and when it returns
\* no health_records row of that source and no child row of such a row
\* remains, the rows of the other sources are unchanged in every table, and
\* deletedRecords is the number of parent rows removed.
C11_DeleteBySource ==
  lastOp.op = "delete" =>
    LET b == lastOp.before
        a == lastOp.after
        ids == IdsOfSource(b, lastOp.source)
    IN  /\ lastOp.tx = 1
        /\ a.hr = {x \in b.hr : x.source # lastOp.source}
        /\ \A t \in ChildTables :
             a.ch[t] = {x \in b.ch[t] : x.record_id \notin ids}
        /\ lastOp.ret.deletedRecords = Cardinality(b.hr) - Cardinality(a.hr)

\* C11 witness: a deleteBySource that removed parent and child rows of its
\* source and left a row of another source
C11_Witness ==
  /\ lastOp.op = "delete" /\ db = lastOp.after
  /\ lastOp.ret.deletedRecords >= 1 /\ lastOp.ret.deletedRelated >= 1
  /\ db.hr # {}

(***************************************************************************)
(* The pipeline: processDataSource (src/index.js) over                     *)
(* BaseProcessor.processFiles / saveToDatabase and the FileProcessor.      *)
(* Every await of the main flow is a step boundary; the load of the        *)
(* checksum cache that the constructor starts runs beside the main flow.   *)
(***************************************************************************)
\* the number of observations an extractor finds in a file of this content
NumObs(content) == content

\* createBaseRecord for the k-th observation of a file: a fresh uuid
CreateBaseRecord(k) ==
  Rec(nextId + k - 1, 1, "nike_plus", "fitness", TRUE, FALSE, FALSE,
      "undefined", "undefined")

flowVars == <<pc, filePaths, incremental, useDb, changedFiles, filesToProcess,
              idx, processed, errors, nextId, dbOpen, runs>>
histVars == <<gcfStable, markedThisRun, cycleSet, handed, runEnv, storeLog>>

\* processDataSource returns: its locals and those of processFiles are gone
ReturnToIdle ==
  /\ pc' = "idle"
  /\ incremental' = FALSE
  /\ changedFiles' = <<>>
  /\ filesToProcess' = <<>>
  /\ idx' = 1
  /\ gcfStable' = TRUE
  /\ markedThisRun' = {}
  /\ handed' = FALSE
  /\ runEnv' = 0

\* new FileProcessor() in the constructor of a processor of a new process:
\* an empty Map, and loadChecksumCache() started and not awaited
\* (a processor that is replaced before it ran leaves nothing behind, so a
\* new one is constructed only once the last one has run)
NewProcessor ==
  /\ pc = "idle"
  /\ procs < MaxProcs
  /\ procs <= runs
  /\ procs' = procs + 1
  /\ checksumCache' = EmptyCache
  /\ loadPc' = "pending"
  /\ processed' = <<>>
  /\ errors' = 0
  /\ dbOpen' = FALSE
  /\ UNCHANGED <<files, cacheFile, pc, filePaths, incremental, useDb,
                 changedFiles, filesToProcess, idx, nextId, env, runs,
                 histVars, dbVars>>

\* a variant of the load in which a cache file that is missing or does not
\* parse leaves an entry for every path in the Map
LoadChecksumCacheLeavesEntries ==
  /\ loadPc = "pending"
  /\ loadPc' = "done"
  /\ checksumCache' = IF cacheFile.state = "ok" THEN cacheFile.data
                      ELSE [p \in Paths |-> 1]
  /\ gcfStable' = (gcfStable /\ checksumCache' = checksumCache)
  /\ UNCHANGED <<files, cacheFile, flowVars, env, procs, markedThisRun,
                 cycleSet, handed, runEnv, storeLog, dbVars>>

\* loadChecksumCache completes: fs.pathExists, fs.readJson, then
\* this.checksumCache = new Map(...). A missing file leaves the Map as it
\* is, and so does a file that does not parse (caught). The cache file is
\* never deleted, so what the two awaits see is what the later one sees,
\* and the load is one step at the time of its assignment.
LoadChecksumCache ==
  /\ loadPc = "pending"
  /\ loadPc' = "done"
  /\ checksumCache' = IF cacheFile.state = "ok" THEN cacheFile.data
                      ELSE checksumCache
  /\ gcfStable' = (gcfStable /\ checksumCache' = checksumCache)
  /\ UNCHANGED <<files, cacheFile, flowVars, env, procs, markedThisRun,
                 cycleSet, handed, runEnv, storeLog, dbVars>>

\* the environment rewrites or deletes an input file: between two runs, or
\* at one of the two points where the code reads a file that it has seen
\* before (after pathExists, after processFile)
ModifyFile(p, c) ==
  /\ env < MaxEnv
  /\ pc \in {"idle", "gcfHash", "mark"}
  /\ files[p] # c
  /\ files' = [files EXCEPT ![p] = c]
  /\ env' = env + 1
  /\ gcfStable' = FALSE
  /\ markedThisRun' = markedThisRun \ {p}
  /\ cycleSet' = cycleSet \ {p}
  /\ UNCHANGED <<cacheFile, checksumCache, loadPc, flowVars, procs, handed,
                 runEnv, storeLog, dbVars>>

\* processDataSource up to the first await of processFiles: getFiles
\* returns the list, the database is initialized if asked for, and
\* processFiles either enters getChangedFiles or takes the whole list
StartRun(inc) ==
  /\ pc = "idle"
  /\ loadPc # "none"
  /\ runs < MaxRuns
  /\ Len(filePaths) > 0
  /\ runs' = runs + 1
  /\ incremental' = inc
  /\ dbOpen' = useDb
  /\ changedFiles' = <<>>
  /\ idx' = 1
  /\ IF inc
     THEN /\ pc' = "gcfExists"
          /\ UNCHANGED <<filesToProcess, processed, errors>>
     ELSE /\ pc' = "procFile"
          /\ filesToProcess' = filePaths
          /\ processed' = <<>>
          /\ errors' = 0
  /\ gcfStable' = TRUE
  /\ markedThisRun' = {}
  /\ handed' = FALSE
  /\ runEnv' = env
  /\ UNCHANGED <<files, cacheFile, checksumCache, loadPc, filePaths, useDb,
                 nextId, env, procs, cycleSet, storeLog, dbVars>>

\* the end of one iteration of the loop of getChangedFiles
GcfNext ==
  IF idx = Len(filePaths) THEN pc' = "gcfDone" /\ UNCHANGED idx
  ELSE pc' = "gcfExists" /\ idx' = idx + 1

\* getChangedFiles: await fs.pathExists(filePath)
GcfPathExists ==
  /\ pc = "gcfExists"
  /\ IF files[filePaths[idx]] = Missing THEN GcfNext
     ELSE pc' = "gcfHash" /\ UNCHANGED idx
  /\ UNCHANGED <<files, cacheFile, checksumCache, loadPc, filePaths,
                 incremental, useDb, changedFiles, filesToProcess, processed,
                 errors, nextId, dbOpen, env, runs, procs, histVars, dbVars>>

\* getChangedFiles: await this.hasFileChanged(filePath), which reads and
\* hashes the file and compares; a file that cannot be read rejects
\* getChangedFiles, processFiles and so the run
GcfHasFileChanged ==
  /\ pc = "gcfHash"
  /\ LET p == filePaths[idx]
     IN  IF files[p] = Missing
         THEN /\ ReturnToIdle
              /\ UNCHANGED <<cycleSet, storeLog>>
         ELSE /\ changedFiles' =
                   IF HasFileChanged(files[p], checksumCache, p)
                   THEN Append(changedFiles, p) ELSE changedFiles
              /\ GcfNext
              /\ UNCHANGED <<incremental, filesToProcess, histVars>>
  /\ UNCHANGED <<files, cacheFile, checksumCache, loadPc, filePaths, useDb,
                 processed, errors, nextId, dbOpen, env, runs, procs, dbVars>>

\* getChangedFiles returns: processFiles takes the list and resets its
\* accumulators
GcfReturn ==
  /\ pc = "gcfDone"
  /\ filesToProcess' = changedFiles
  /\ processed' = <<>>
  /\ errors' = 0
  /\ idx' = 1
  /\ pc' = IF changedFiles = <<>> THEN "save" ELSE "procFile"
  /\ UNCHANGED <<files, cacheFile, checksumCache, loadPc, filePaths,
                 incremental, useDb, changedFiles, nextId, dbOpen, env, runs,
                 procs, histVars, dbVars>>

\* the end of one iteration of the loop of processFiles
PfNext ==
  IF idx = Len(filesToProcess)
  THEN pc' = (IF incremental THEN "save" ELSE "return") /\ UNCHANGED idx
  ELSE pc' = "procFile" /\ idx' = idx + 1

\* processFiles: await this.processFile(filePath) and push its records; a
\* file that cannot be read throws into the catch of the loop
ProcessFile ==
  /\ pc = "procFile"
  /\ LET p == filesToProcess[idx]
         n == NumObs(files[p])
     IN  IF files[p] = Missing
         THEN /\ errors' = errors + 1
              /\ PfNext
              /\ UNCHANGED <<processed, nextId>>
         ELSE /\ processed' = processed \o [k \in 1..n |-> CreateBaseRecord(k)]
              /\ nextId' = nextId + n
              /\ IF incremental THEN pc' = "mark" /\ UNCHANGED idx ELSE PfNext
              /\ UNCHANGED errors
  /\ UNCHANGED <<files, cacheFile, checksumCache, loadPc, filePaths,
                 incremental, useDb, changedFiles, filesToProcess, dbOpen, env,
                 runs, procs, histVars, dbVars>>

\* processFiles: await this.fileProcessor.markFileProcessed(filePath), which
\* reads and hashes the file again; a throw goes to the catch of the loop
MarkFileProcessed ==
  /\ pc = "mark"
  /\ LET p == filesToProcess[idx]
     IN  IF files[p] = Missing
         THEN /\ errors' = errors + 1
              /\ UNCHANGED <<checksumCache, markedThisRun>>
         ELSE /\ checksumCache' = [checksumCache EXCEPT ![p] = MD5(files[p])]
              /\ markedThisRun' = markedThisRun \cup {p}
              /\ UNCHANGED errors
  /\ PfNext
  /\ UNCHANGED <<files, cacheFile, loadPc, filePaths, incremental, useDb,
                 changedFiles, filesToProcess, processed, nextId, dbOpen, env,
                 runs, procs, gcfStable, cycleSet, handed, runEnv, storeLog,
                 dbVars>>

\* processFiles: await this.fileProcessor.saveChecksumCache(); a failure to
\* write is logged and swallowed
SaveChecksumCache(ok) ==
  /\ pc = "save"
  /\ pc' = "return"
  /\ IF ok
     THEN /\ cacheFile' = [state |-> "ok", data |-> checksumCache]
          /\ cycleSet' = {p \in cycleSet \cup markedThisRun :
                            checksumCache[p] # Absent}
          /\ UNCHANGED env
     ELSE /\ env < MaxEnv
          /\ env' = env + 1
          /\ UNCHANGED <<cacheFile, cycleSet>>
  /\ UNCHANGED <<files, checksumCache, loadPc, filePaths, incremental, useDb,
                 changedFiles, filesToProcess, idx, processed, errors, nextId,
                 dbOpen, runs, procs, gcfStable, markedThisRun, handed,
                 runEnv, storeLog, dbVars>>

\* processFiles returns to processDataSource, which stores the records if
\* options.database is set and there are any
ProcessFilesReturn ==
  /\ pc = "return"
  /\ pc' = IF useDb /\ Len(processed) > 0 THEN "saveDb" ELSE "finish"
  /\ UNCHANGED <<files, cacheFile, checksumCache, loadPc, filePaths,
                 incremental, useDb, changedFiles, filesToProcess, idx,
                 processed, errors, nextId, dbOpen, env, runs, procs, histVars,
                 dbVars>>

\* processDataSource: await processor.saveToDatabase(), which hands
\* this.processed to DataMapper.insertRecords; if the database cannot start
\* the transaction the call throws into the catch of processDataSource
SaveToDatabase(ok) ==
  /\ pc = "saveDb"
  /\ IF ok
     THEN /\ LET o == InsertRecords(db, processed)
             IN  /\ db' = o.db
                 /\ results' = o.results
                 /\ txCommitted' = o.tx
                 /\ storeLog' = Append(storeLog,
                      [paths |-> filePaths, envStart |-> runEnv,
                       envEnd |-> env, count |-> Cardinality(o.db.hr)])
          /\ handed' = TRUE
          /\ pc' = "finish"
          /\ UNCHANGED <<incremental, changedFiles, filesToProcess, idx,
                         gcfStable, markedThisRun, runEnv, env>>
     ELSE /\ env < MaxEnv
          /\ env' = env + 1
          /\ ReturnToIdle
          /\ UNCHANGED <<db, results, txCommitted, storeLog>>
  /\ UNCHANGED <<files, cacheFile, checksumCache, loadPc, filePaths, useDb,
                 processed, errors, nextId, dbOpen, runs, procs, cycleSet,
                 dbType, records, listHanded, calls, adds, prevCall, lastOp>>

\* processDataSource: the output files are written, the database is closed
\* and the result returned
FinishRun ==
  /\ pc = "finish"
  /\ ReturnToIdle
  /\ dbOpen' = FALSE
  /\ UNCHANGED <<files, cacheFile, checksumCache, loadPc, filePaths, useDb,
                 processed, errors, nextId, env, runs, procs, cycleSet,
                 storeLog, dbVars>>

\* every input file present, a checksum cache file that is missing or does
\* not parse, a list of input files and the database option of the command
\* line, no processor yet, an empty SQLite database
InitFp ==
  /\ files = [p \in Paths |-> 1]
  /\ cacheFile \in {[state |-> st, data |-> EmptyCache] :
                      st \in {"missing", "corrupt"}}
  /\ checksumCache = EmptyCache
  /\ loadPc = "none"
  /\ pc = "idle"
  /\ filePaths \in RunLists
  /\ incremental = FALSE
  /\ useDb \in BOOLEAN
  /\ changedFiles = <<>>
  /\ filesToProcess = <<>>
  /\ idx = 1
  /\ processed = <<>>
  /\ errors = 0
  /\ nextId = 1
  /\ dbOpen = FALSE
  /\ env = 0 /\ runs = 0 /\ procs = 0
  /\ gcfStable = TRUE
  /\ markedThisRun = {}
  /\ cycleSet = {}
  /\ handed = FALSE
  /\ runEnv = 0
  /\ storeLog = <<>>
  /\ DbFresh
  /\ dbType = "sqlite"
  /\ AuxIdle

NextFp ==
  \/ NewProcessor /\ UNCHANGED auxVars
  \/ LoadChecksumCache /\ UNCHANGED auxVars
  \/ \E p \in Paths, c \in FileStates : ModifyFile(p, c) /\ UNCHANGED auxVars
  \/ \E inc \in BOOLEAN : StartRun(inc) /\ UNCHANGED auxVars
  \/ GcfPathExists /\ UNCHANGED auxVars
  \/ GcfHasFileChanged /\ UNCHANGED auxVars
  \/ GcfReturn /\ UNCHANGED auxVars
  \/ ProcessFile /\ UNCHANGED auxVars
  \/ MarkFileProcessed /\ UNCHANGED auxVars
  \/ \E ok \in BOOLEAN : SaveChecksumCache(ok) /\ UNCHANGED auxVars
  \/ ProcessFilesReturn /\ UNCHANGED auxVars
  \/ \E ok \in BOOLEAN : SaveToDatabase(ok) /\ UNCHANGED auxVars
  \/ FinishRun /\ UNCHANGED auxVars

SpecFp == InitFp /\ [][NextFp]_vars

(***************************************************************************)
(* Properties of the Change Detector and of the pipeline.                  *)
(***************************************************************************)
\* the paths of the list, in order, that exist and whose digest is not the
\* one the cache holds for them
ExpectedChanged(paths, fs, cache) ==
  SelectSeq(paths, LAMBDA p : fs[p] # Missing /\ 1 + (fs[p] % HashSpace) # cache[p])

\* C1: when getChangedFiles returns, and neither a file nor the cache
\* changed while it ran, its result is, in input order, the existing paths
\* whose digest differs from the cached one; an uncached path is in it and
\* a path whose digest equals the cached one is not.
C1_ChangedFiles ==
  (pc = "gcfDone" /\ gcfStable) =>
    changedFiles = ExpectedChanged(filePaths, files, checksumCache)

\* C1 witness: getChangedFiles(["a.csv", "b.csv"]) with both paths cached
\* and only a.csv differing from the cache returned ["a.csv"]
C1_Witness ==
  /\ pc = "gcfDone" /\ gcfStable
  /\ filePaths = <<"a.csv", "b.csv">>
  /\ checksumCache["a.csv"] # Absent /\ checksumCache["b.csv"] # Absent
  /\ files["b.csv"] # Missing
  /\ changedFiles = <<"a.csv">>

\* C2: when every path of the list was marked in a run whose
\* saveChecksumCache completed, and none was modified since, getChangedFiles
\* returns the empty list, also in a processor constructed afterwards.
C2_UnchangedAfterCycle ==
  (pc = "gcfDone" /\ Range(filePaths) \subseteq cycleSet) => changedFiles = <<>>

\* C3: in an incremental run that stores to the database, a file is marked
\* in the checksum cache only once the run's records have been handed to
\* the Relational Mapper.
C3_MarkAfterStore ==
  (incremental /\ useDb /\ markedThisRun # {}) => handed

\* C8: two consecutive runs that stored their records, over the same list
\* of files with no file modified from the start of the first to the end of
\* the second, leave the same number of rows in health_records.
C8_RerunKeepsRowCount ==
  \A i \in 1..(Len(storeLog) - 1) :
    (storeLog[i + 1].paths = storeLog[i].paths
       /\ storeLog[i + 1].envEnd = storeLog[i].envStart) =>
      storeLog[i + 1].count = storeLog[i].count

(***************************************************************************)
(* The streaming sampler: AppleHealthProcessor.processLargeXmlFile         *)
(* (src/processors/appleHealthProcessor.js:554). The handler of 'data'     *)
(* awaits only values that are not promises, so it has run to its end      *)
(* before the next event of the stream is delivered: one chunk is one      *)
(* step.                                                                   *)
(***************************************************************************)
\* number of chunks a stream delivers
MaxChunks == 7
\* const chunkSize = 1024 * 1024, in tokens
chunkSize == 2
\* const sampleRate = 10, scaled
sampleRate == 4
\* const maxRecords = 50000, scaled
maxRecords == 3

\* the text of an export, in tokens of one unit of length: "o" and "c" are
\* the two halves of a self-closing <Record .../>, "P" is a paired
\* <Record ...>...</Record> on one line, "j" is any other text
Tokens == {"o", "c", "P", "j"}

Chunks == UNION {[1..n -> Tokens] : n \in 1..chunkSize}

\* the last token the stream has delivered; an empty buffer ends a match or
\* starts the stream
LastToken == IF buffer = <<>> THEN "j" ELSE buffer[Len(buffer)]

\* the export is well formed: "c" follows "o" and nothing else does
WellFormed(chunk) ==
  \A i \in 1..Len(chunk) :
    LET before == IF i = 1 THEN LastToken ELSE chunk[i - 1]
    IN  (chunk[i] = "c") <=> (before = "o")

RECURSIVE SortedSeq(_)
SortedSeq(S) ==
  IF S = {} THEN <<>>
  ELSE LET m == CHOOSE x \in S : \A y \in S : x <= y
       IN  <<m>> \o SortedSeq(S \ {m})

\* the matches of /<Record[^>]*\/>/g in the buffer, in order
SelfClosingMatches(b) ==
  LET starts == {i \in 1..(Len(b) - 1) : b[i] = "o" /\ b[i + 1] = "c"}
      sq == SortedSeq(starts)
  IN  [k \in 1..Len(sq) |-> [index |-> sq[k], length |-> 2, kind |-> "self"]]

\* the matches of /<Record[^>]*>.*?<\/Record>/g in the buffer, in order
PairedMatches(b) ==
  LET sq == SortedSeq({i \in 1..Len(b) : b[i] = "P"})
  IN  [k \in 1..Len(sq) |-> [index |-> sq[k], length |-> 1, kind |-> "paired"]]

\* a variant of the sampling test that takes the entry after each multiple
SampledAfterMultiple(total) == total % sampleRate = 1

\* totalRecordsFound % sampleRate === 0
Sampled(total) == total % sampleRate = 0

\* a variant of the loop condition without the cap
UnderCapAlways(count) == TRUE

\* ... && recordCount < maxRecords
UnderCap(count) == count < maxRecords

\* while ((match = regex.exec(buffer)) !== null && recordCount < maxRecords)
RECURSIVE ScanLoop(_, _, _)
ScanLoop(ms, i, st) ==
  IF i > Len(ms) \/ ~UnderCap(st.count) THEN st
  ELSE LET t == st.total + 1
       IN  IF Sampled(t)
           THEN ScanLoop(ms, i + 1,
                  [total |-> t, count |-> st.count + 1,
                   picked |-> Append(st.picked, ms[i]),
                   at |-> Append(st.at, t)])
           ELSE ScanLoop(ms, i + 1, [st EXCEPT !.total = t])

\* the two loops of the handler, over the self-closing and then the paired
\* matches of the buffer; picked is recordMatches
Scan(b) ==
  LET st0 == [total |-> totalRecordsFound, count |-> recordCount,
              picked |-> <<>>, at |-> <<>>]
      st1 == ScanLoop(SelfClosingMatches(b), 1, st0)
  IN  ScanLoop(PairedMatches(b), 1, st1)

\* Math.max(...recordMatches.map(m => m.index + m.xml.length)): the number
\* of tokens up to the end of the last sampled match
LastIndex(picked) ==
  LET ends == {picked[k].index + picked[k].length - 1 : k \in 1..Len(picked)}
  IN  CHOOSE e \in ends : \A f \in ends : f <= e

\* a variant of the test of the limit that never closes the stream
LimitReachedNever(count) == FALSE

\* if (recordCount >= maxRecords) { stream.destroy(); resolve(records) }
LimitReached(count) == count >= maxRecords

\* stream.on('data'): the chunk is appended, both scans run (sampledAt
\* keeps the value of totalRecordsFound at each push to recordMatches), the
\* k-th sampled entry is parsed and pushed if it gives a valid record
\* (k \in parseOk), the buffer is cut, and at the cap the stream is destroyed
\* and the promise resolved
OnData(chunk, parseOk) ==
  /\ streamPc = "open"
  /\ chunksRead < MaxChunks
  /\ WellFormed(chunk)
  /\ chunksRead' = chunksRead + 1
  /\ LET b == buffer \o chunk
         st2 == Scan(b)
         kept == SelectSeq([k \in 1..Len(st2.picked) |-> k], LAMBDA k : k \in parseOk)
         recs == xmlRecords \o [j \in 1..Len(kept) |-> st2.picked[kept[j]].kind]
     IN  /\ totalRecordsFound' = st2.total
         /\ recordCount' = st2.count
         /\ xmlRecords' = recs
         /\ sampledAt' = sampledAt \o st2.at
         /\ buffer' = IF Len(st2.picked) > 0
                      THEN SubSeq(b, LastIndex(st2.picked) + 1, Len(b))
                      ELSE IF Len(b) > chunkSize * 2
                           THEN SubSeq(b, chunkSize + 1, Len(b))
                           ELSE b
         /\ IF LimitReached(st2.count)
            THEN /\ streamPc' = "resolved"
                 /\ pipelineRecords' = [settled |-> TRUE, records |-> recs]
            ELSE UNCHANGED <<streamPc, pipelineRecords>>

\* stream.on('end'): resolve(records); processFile returns them and
\* processFiles pushes them to this.processed
OnEnd ==
  /\ streamPc = "open"
  /\ streamPc' = "resolved"
  /\ pipelineRecords' = [settled |-> TRUE, records |-> xmlRecords]
  /\ UNCHANGED <<buffer, totalRecordsFound, recordCount, xmlRecords,
                 chunksRead, sampledAt>>

\* stream.on('error', reject): processLargeXmlFile and processFile reject,
\* the catch of the loop of processFiles logs the error and nothing of the
\* file is pushed to this.processed
OnError ==
  /\ streamPc = "open"
  /\ streamPc' = "rejected"
  /\ pipelineRecords' = [settled |-> TRUE, records |-> <<>>]
  /\ UNCHANGED <<buffer, totalRecordsFound, recordCount, xmlRecords,
                 chunksRead, sampledAt>>

\* the stream of a large export has just been opened
InitStream ==
  /\ FpIdle /\ DbFresh /\ dbType = "sqlite" /\ FnIdle /\ SchIdle /\ MarkIdle
  /\ buffer = <<>>
  /\ totalRecordsFound = 0
  /\ recordCount = 0
  /\ xmlRecords = <<>>
  /\ streamPc = "open"
  /\ chunksRead = 0
  /\ sampledAt = <<>>
  /\ pipelineRecords = [settled |-> FALSE, records |-> <<>>]

NextStream ==
  \/ \E chunk \in Chunks :
       \E parseOk \in SUBSET (1..Len(Scan(buffer \o chunk).picked)) :
         OnData(chunk, parseOk)
           /\ UNCHANGED <<fpVars, dbVars, fnVars, schVars, markVars>>
  \/ OnEnd /\ UNCHANGED <<fpVars, dbVars, fnVars, schVars, markVars>>
  \/ OnError /\ UNCHANGED <<fpVars, dbVars, fnVars, schVars, markVars>>

SpecStream == InitStream /\ [][NextStream]_vars

\* C12: the records array of the streaming sampler never holds more than
\* maxRecords records, whatever the stream and its division into chunks.
C12_AtMostMaxRecords == Len(xmlRecords) <= maxRecords

\* C12 witness: the cap was reached and the stream was closed while the
\* buffer still held a complete entry
C12_Witness ==
  /\ streamPc = "resolved"
  /\ Len(xmlRecords) = maxRecords
  /\ \E i \in 1..Len(buffer) : buffer[i] = "P"

\* C13: after any chunk has been handled the working buffer of the
\* streaming sampler is no longer than a fixed maximum derived from the
\* threshold of 2 x chunkSize: the threshold plus one chunk.
C13_BufferBounded == Len(buffer) <= 3 * chunkSize

\* C14: when the stream fails, the records extracted from the file before
\* the failure are in the result of the pipeline.
C14_ErrorKeepsRecords ==
  streamPc = "rejected" => pipelineRecords.records = xmlRecords

\* C20: the entries handed to the parser are exactly the entries counted
\* sampleRate-th, 2 x sampleRate-th, ... in order, up to the cap, and only
\* they give records.
C20_EveryKthCounted ==
  /\ \A i \in 1..Len(sampledAt) : sampledAt[i] = i * sampleRate
  /\ Len(sampledAt) = recordCount
  /\ Len(sampledAt) = totalRecordsFound \div sampleRate
  /\ Len(xmlRecords) <= Len(sampledAt)

\* C20 witness: two entries were handed on, in two different chunks, with
\* entries counted and passed over before each
C20_Witness ==
  /\ sampledAt = <<sampleRate, 2 * sampleRate>>
  /\ chunksRead >= 3
  /\ Len(xmlRecords) = 2

(***************************************************************************)
(* BaseProcessor.validateRecord (base processor, line 67), applied to one  *)
(* record and one list of required fields.                                 *)
(***************************************************************************)
Fields == {"timestamp", "value", "source"}

\* the values a field of a record can have, by what JavaScript makes of
\* them: a missing property, null, the number 0, the empty string, false,
\* and a non-empty string
FieldValues == {"undefined", "null", "0", "''", "false", "text"}

\* !v
Falsy(v) == v \in {"undefined", "null", "0", "''", "false"}

\* !record[field] || record[field] === null || record[field] === undefined
FieldMissing(v) == Falsy(v) \/ v = "null" \/ v = "undefined"

\* the lists of required fields, the default ['timestamp'] among them
RequiredLists ==
  {<<>>} \cup {<<f>> : f \in Fields} \cup {<<f, g>> : f, g \in Fields}

\* the loop of validateRecord from the i-th required field: the result and
\* the number of errors logged
RECURSIVE ValidateLoop(_, _, _)
ValidateLoop(record, requiredFields, i) ==
  IF i > Len(requiredFields) THEN [ret |-> TRUE, logged |-> 0]
  ELSE IF FieldMissing(record[requiredFields[i]])
       THEN [ret |-> FALSE, logged |-> 1]
       ELSE ValidateLoop(record, requiredFields, i + 1)

validateRecord(record, requiredFields) == ValidateLoop(record, requiredFields, 1)

ValidateRecordCall ==
  /\ fnIn # <<>> /\ fnOut = <<>>
  /\ LET o == validateRecord(fnIn[1].record, fnIn[1].requiredFields)
     IN  /\ fnOut' = <<o.ret>>
         /\ errors' = errors + o.logged
  /\ UNCHANGED <<files, cacheFile, checksumCache, loadPc, pc, filePaths,
                 incremental, useDb, changedFiles, filesToProcess, idx,
                 processed, nextId, dbOpen, env, runs, procs, gcfStable,
                 markedThisRun, cycleSet, handed, runEnv, storeLog>>
  /\ UNCHANGED <<fnIn, dbVars, stVars, schVars, markVars>>

InitValidate ==
  /\ FpIdle /\ DbFresh /\ dbType = "sqlite" /\ StIdle /\ SchIdle /\ MarkIdle
  /\ fnIn \in {<<[record |-> r, requiredFields |-> q]>> :
                 r \in [Fields -> FieldValues], q \in RequiredLists}
  /\ fnOut = <<>>

NextValidate == ValidateRecordCall

SpecValidate == InitValidate /\ [][NextValidate]_vars

\* C17: validateRecord returns false exactly when a required field of the
\* record is null or absent; every other value of a required field is
\* accepted.
C17_FalseIffNullOrAbsent ==
  fnOut # <<>> =>
    LET record == fnIn[1].record
        requiredFields == fnIn[1].requiredFields
    IN  (fnOut[1] = FALSE) <=>
          \E i \in 1..Len(requiredFields) :
            record[requiredFields[i]] \in {"undefined", "null"}

(***************************************************************************)
(* DataMapper.getRecordsByDateRange (src/database/dataMapper.js:401) over  *)
(* a store of health_records rows and their fitness_metrics rows.          *)
(***************************************************************************)
\* calendar dates: [mm, dd, yyyy]
Dates == [mm : {1, 12}, dd : {1, 2}, yyyy : {2022, 2023}]

RangeIds == {1, 2}

\* the character codes of the two digits of n
TwoDigits(n) == <<48 + (n \div 10), 48 + (n % 10)>>

\* moment's format MM/DD/YYYY, which extractDateOnly takes from the
\* timestamp, as the character codes of the string
FormatDateOnly(d) ==
  TwoDigits(d.mm) \o <<47>> \o TwoDigits(d.dd) \o <<47>>
    \o TwoDigits(d.yyyy \div 100) \o TwoDigits(d.yyyy % 100)

\* the comparison of two TEXT values by SQLite: bytewise from the left
RECURSIVE TextLeqFrom(_, _, _)
TextLeqFrom(a, b, i) ==
  IF i > Len(a) THEN TRUE
  ELSE IF i > Len(b) THEN FALSE
  ELSE IF a[i] # b[i] THEN a[i] < b[i]
  ELSE TextLeqFrom(a, b, i + 1)

TextLeq(a, b) == TextLeqFrom(a, b, 1)

\* x BETWEEN lo AND hi
Between(x, lo, hi) == TextLeq(lo, x) /\ TextLeq(x, hi)

\* ORDER BY hr.timestamp, all rows at the same time of day: the rows of the
\* set in the order of their date strings, then of their ids
RECURSIVE OrderByTimestamp(_)
OrderByTimestamp(rows) ==
  IF rows = {} THEN <<>>
  ELSE LET first == CHOOSE r \in rows : \A q \in rows :
                      \/ r.date_only # q.date_only /\ TextLeq(r.date_only, q.date_only)
                      \/ r.date_only = q.date_only /\ r.id <= q.id
       IN  <<first>> \o OrderByTimestamp(rows \ {first})

\* the query: hr holds the date of each stored row, fm is the set of ids
\* with a fitness_metrics row; steps is NULL for a row without one
getRecordsByDateRange(hr, fm, startDate, endDate) ==
  LET joined == {[id |-> i, date_only |-> FormatDateOnly(hr[i]),
                  steps |-> IF i \in fm THEN i ELSE Null] : i \in DOMAIN hr}
  IN  OrderByTimestamp({r \in joined : Between(r.date_only,
                                               FormatDateOnly(startDate),
                                               FormatDateOnly(endDate))})

GetRecordsByDateRangeCall ==
  /\ fnIn # <<>> /\ fnOut = <<>>
  /\ fnOut' = <<getRecordsByDateRange(fnIn[1].hr, fnIn[1].fm,
                                      fnIn[1].startDate, fnIn[1].endDate)>>
  /\ UNCHANGED <<fnIn, fpVars, dbVars, stVars, schVars, markVars>>

InitRange ==
  /\ FpIdle /\ DbFresh /\ dbType = "sqlite" /\ StIdle /\ SchIdle /\ MarkIdle
  /\ fnIn \in {<<[hr |-> h, fm |-> f, startDate |-> a, endDate |-> b]>> :
                 h \in UNION {[I -> Dates] : I \in SUBSET RangeIds},
                 f \in SUBSET {1}, a \in Dates, b \in Dates}
  /\ \A i \in fnIn[1].fm : i \in DOMAIN fnIn[1].hr
  /\ fnOut = <<>>

NextRange == GetRecordsByDateRangeCall

SpecRange == InitRange /\ [][NextRange]_vars

\* a date as a number that grows with the calendar
Chronological(d) == d.yyyy * 10000 + d.mm * 100 + d.dd

\* C19: getRecordsByDateRange returns exactly the rows whose date lies in
\* the inclusive calendar range from startDate to endDate, each once with
\* its joined columns, whatever the years of the dates.
C19_InclusiveChronologicalRange ==
  fnOut # <<>> =>
    LET in == fnIn[1]
        expected == {i \in DOMAIN in.hr :
                       /\ Chronological(in.startDate) <= Chronological(in.hr[i])
                       /\ Chronological(in.hr[i]) <= Chronological(in.endDate)}
    IN  /\ {fnOut[1][k].id : k \in 1..Len(fnOut[1])} = expected
        /\ Len(fnOut[1]) = Cardinality(expected)

\* C15: processFiles never rejects because of one file: from its call to
\* its return no step abandons the run, in incremental mode and without it.
C15_ProcessFilesNeverRejects ==
  [][pc \notin {"idle", "finish", "saveDb"} => pc' # "idle"]_vars

\* C18: a load that finds the cache file missing or not parseable does not
\* stop the run and puts nothing into the cache; in the first run, once the
\* load is over, the cache is empty and getChangedFiles returns every
\* existing path of its list, in order.
C18_CorruptCacheIsEmptyCache ==
  /\ [][(loadPc = "pending" /\ loadPc' = "done" /\ cacheFile.state # "ok")
          => (checksumCache' = checksumCache /\ pc' = pc)]_vars
  /\ []((runs = 1 /\ loadPc = "done" /\ pc \in {"gcfExists", "gcfHash", "gcfDone"})
          => checksumCache = EmptyCache)
  /\ []((runs = 1 /\ loadPc = "done" /\ pc = "gcfDone" /\ gcfStable)
          => changedFiles = SelectSeq(filePaths, LAMBDA p : files[p] # Missing))

\* C18 witness: the cache file did not parse, the load is over, and
\* getChangedFiles(["a.csv", "b.csv"]) returned both paths
C18_Witness ==
  /\ cacheFile.state = "corrupt"
  /\ runs = 1 /\ loadPc = "done" /\ pc = "gcfDone" /\ gcfStable
  /\ changedFiles = <<"a.csv", "b.csv">>

(***************************************************************************)
(* The extractors on a file whose observations carry timestamps that       *)
(* DateNormalizer.normalize (src/utils/dateNormalizer.js:31) parses or     *)
(* throws on: the CSV row handler of GyroscopeProcessor.processFile, the   *)
(* two paths of AppleHealthProcessor and NikePlusProcessor.processFile.    *)
(***************************************************************************)
Extractors == {"csv_rows", "apple_small", "apple_stream", "nike_json"}

\* the timestamp of an observation: one that a format of the normalizer
\* parses, or one for which normalize throws "Unable to parse date"
Timestamps == {"parses", "unparseable"}

MaxObservations == 4

ObservationLists == UNION {[1..n -> Timestamps] : n \in 1..MaxObservations}

\* normalize(dateString): the normalized timestamp of the k-th observation,
\* or a throw
normalize(k, dateString) ==
  IF dateString = "unparseable" THEN [threw |-> TRUE, value |-> Null]
  ELSE [threw |-> FALSE, value |-> k]

\* the 'data' handler of the CSV stream: try { record; push } catch
\* { logError } for each row
RECURSIVE CsvRows(_, _, _)
CsvRows(obs, k, acc) ==
  IF k > Len(obs) THEN acc
  ELSE LET n == normalize(k, obs[k])
       IN  IF n.threw
           THEN CsvRows(obs, k + 1, [acc EXCEPT !.errors = @ + 1])
           ELSE CsvRows(obs, k + 1, [acc EXCEPT !.records = Append(@, n.value)])

\* the loop of processSmallXmlFile: processHealthRecord is called outside
\* any try, so a throw of normalize leaves processFile, and the catch of
\* processFiles logs one error for the file
RECURSIVE AppleSmall(_, _, _)
AppleSmall(obs, k, acc) ==
  IF k > Len(obs) THEN acc
  ELSE LET n == normalize(k, obs[k])
       IN  IF n.threw
           THEN [records |-> <<>>, errors |-> acc.errors + 1]
           ELSE AppleSmall(obs, k + 1, [acc EXCEPT !.records = Append(@, n.value)])

\* the sampled entries of processLargeXmlFile: parseRecordFromXmlSync
\* catches the throw and returns null, and nothing is logged
RECURSIVE AppleStream(_, _, _)
AppleStream(obs, k, acc) ==
  IF k > Len(obs) THEN acc
  ELSE LET n == normalize(k, obs[k])
       IN  IF n.threw
           THEN AppleStream(obs, k + 1, acc)
           ELSE AppleStream(obs, k + 1, [acc EXCEPT !.records = Append(@, n.value)])

\* processJsonFile inside the try of NikePlusProcessor.processFile: a throw
\* of createBaseRecord is logged once and the file gives []
RECURSIVE NikeJson(_, _, _)
NikeJson(obs, k, acc) ==
  IF k > Len(obs) THEN acc
  ELSE LET n == normalize(k, obs[k])
       IN  IF n.threw
           THEN [records |-> <<>>, errors |-> acc.errors + 1]
           ELSE NikeJson(obs, k + 1, [acc EXCEPT !.records = Append(@, n.value)])

\* processFile of the extractor inside the loop of processFiles: the
\* records pushed to this.processed and the errors logged
ExtractFile(extractor, obs) ==
  LET acc0 == [records |-> <<>>, errors |-> 0]
  IN  CASE extractor = "csv_rows" -> CsvRows(obs, 1, acc0)
        [] extractor = "apple_small" -> AppleSmall(obs, 1, acc0)
        [] extractor = "apple_stream" -> AppleStream(obs, 1, acc0)
        [] extractor = "nike_json" -> NikeJson(obs, 1, acc0)

ExtractFileCall ==
  /\ fnIn # <<>> /\ fnOut = <<>>
  /\ LET o == ExtractFile(fnIn[1].extractor, fnIn[1].observations)
     IN  /\ fnOut' = <<o.records>>
         /\ errors' = errors + o.errors
  /\ UNCHANGED <<files, cacheFile, checksumCache, loadPc, pc, filePaths,
                 incremental, useDb, changedFiles, filesToProcess, idx,
                 processed, nextId, dbOpen, env, runs, procs, gcfStable,
                 markedThisRun, cycleSet, handed, runEnv, storeLog>>
  /\ UNCHANGED <<fnIn, dbVars, stVars, schVars, markVars>>

\* every timestamp of a Nike+ file derives from the date in its name
InitExtract ==
  /\ FpIdle /\ DbFresh /\ dbType = "sqlite" /\ StIdle /\ SchIdle /\ MarkIdle
  /\ fnIn \in {<<[extractor |-> e, observations |-> o]>> :
                 e \in Extractors, o \in ObservationLists}
  /\ fnIn[1].extractor = "nike_json" =>
       \A k \in 1..Len(fnIn[1].observations) :
         fnIn[1].observations[k] = fnIn[1].observations[1]
  /\ fnOut = <<>>

NextExtract == ExtractFileCall

SpecExtract == InitExtract /\ [][NextExtract]_vars

\* C16: an observation whose timestamp cannot be normalized costs only its
\* own record, and is logged: the records of a file are those of all its
\* other observations, in order, for every extractor.
C16_OnlyThatRecordDropped ==
  fnOut # <<>> =>
    LET obs == fnIn[1].observations
        good == SelectSeq([k \in 1..Len(obs) |-> k],
                          LAMBDA k : obs[k] = "parses")
    IN  /\ fnOut[1] = good
        /\ Len(good) < Len(obs) => errors > 0

\* a file is finite: a read stream that stays open comes to emit 'end'
SpecStreamFair ==
  SpecStream
    /\ WF_vars(OnEnd /\ UNCHANGED <<fpVars, dbVars, fnVars, schVars, markVars>>)

\* C21: at the cap the stream is closed in the same handler and the call
\* resolves with the accumulated records; a call that has settled reads no
\* further chunk and its result gets no further record; a stream that ends
\* resolves the call with the accumulated records; and every call settles.
C21_LimitedOrCompleted ==
  /\ [](recordCount >= maxRecords => streamPc = "resolved")
  /\ [](streamPc = "resolved" =>
          pipelineRecords = [settled |-> TRUE, records |-> xmlRecords])
  /\ [][streamPc # "open" => UNCHANGED <<stVars>>]_vars
  /\ [][(streamPc = "open" /\ chunksRead' = chunksRead /\ streamPc' = "resolved")
          => pipelineRecords' = [settled |-> TRUE, records |-> xmlRecords]]_vars
  /\ <>(streamPc # "open")

\* C21 witness: the cap was reached before the stream was read to its end,
\* and the call has delivered maxRecords records
C21_Witness ==
  /\ streamPc = "resolved"
  /\ recordCount = maxRecords
  /\ chunksRead < MaxChunks
  /\ Len(pipelineRecords.records) = maxRecords

\* the entries whose last token is in a text
EntriesEndingIn(text) ==
  Cardinality({i \in 1..Len(text) : text[i] \in {"c", "P"}})

\* C29: the sampler counts every complete entry of the stream once,
\* whatever the chunk boundaries: in a chunk in which nothing is sampled and
\* nothing is cut from the buffer, so that the buffer is the old one with
\* the chunk appended, totalRecordsFound grows by the number of entries that
\* the chunk completes, and the entries that stayed are not counted again.
C29_CountedExactlyOnce ==
  [][(streamPc = "open" /\ recordCount' = recordCount
        /\ Len(buffer') > Len(buffer))
       => totalRecordsFound' - totalRecordsFound
            = EntriesEndingIn(buffer') - EntriesEndingIn(buffer)]_vars

\* createTables: the statements run in order; CREATE TABLE IF NOT EXISTS
\* and CREATE INDEX IF NOT EXISTS leave what exists as it is
CreateTables ==
  /\ calls < MaxCalls
  /\ calls' = calls + 1
  /\ LET o == CreateLoop(dbType, CreateOrder(dbType), 1, tables, <<>>)
     IN  /\ tables' = o.tables
         /\ ddl' = [op |-> "create", stmts |-> o.stmts, failed |-> o.failed]
  /\ UNCHANGED <<dbType, db, records, listHanded, results, txCommitted, adds,
                 prevCall, lastOp, fpVars, stVars, fnVars, markVars>>

\* dropAllTables: DROP TABLE IF EXISTS over the reversed order
DropAllTables ==
  /\ calls < MaxCalls
  /\ calls' = calls + 1
  /\ LET o == DropLoop(dbType, DropOrder(dbType), 1, tables, db, <<>>)
     IN  /\ tables' = o.tables
         /\ db' = o.db
         /\ ddl' = [op |-> "drop", stmts |-> o.stmts, failed |-> o.failed]
  /\ UNCHANGED <<dbType, records, listHanded, results, txCommitted, adds,
                 prevCall, lastOp, fpVars, stVars, fnVars, markVars>>

\* the rows a mapper of the backend stores for a list of records
StoredBy(type, recs) ==
  IF type = "sqlite" THEN InsertRecords(EmptyDb, recs).db
  ELSE MyInsertRecords(EmptyDb, recs, "none").db

\* a database file without tables, or one with the schema and the rows of
\* up to two records
InitSchema ==
  /\ FpIdle /\ StIdle /\ FnIdle /\ MarkIdle
  /\ dbType \in {"sqlite", "mysql"}
  /\ records = <<>> /\ listHanded = FALSE /\ results = EmptyResults
  /\ txCommitted = 0 /\ calls = 0 /\ adds = 0
  /\ prevCall = NoCall /\ lastOp = NoOp
  /\ ddl = NoDdl
  /\ tables \in {{}, Range(CreateOrder(dbType))}
  /\ db \in IF tables = {} THEN {EmptyDb}
            ELSE {EmptyDb}
                   \cup {StoredBy(dbType, <<r>>) : r \in RecordSpace}
                   \cup {StoredBy(dbType, <<r, q>>) :
                           r \in {x \in RecordSpace : x.id = 1},
                           q \in {x \in RecordSpace : x.id = 2}}

NextSchema ==
  \/ CreateTables
  \/ DropAllTables

SpecSchema == InitSchema /\ [][NextSchema]_vars

\* C22: createTables creates health_records before every child table and
\* changes neither a table that exists nor any row; dropAllTables drops the
\* tables in the reverse of the creation order, health_records last, and
\* leaves none of them.
C22_CreateAndDropOrder ==
  /\ [](ddl.op = "create" =>
          /\ ~ddl.failed
          /\ ddl.stmts # <<>> /\ ddl.stmts[1] = "health_records"
          /\ Range(ddl.stmts) \subseteq tables)
  /\ [][ddl'.op = "create" /\ calls' # calls =>
          /\ tables \subseteq tables'
          /\ db' = db
          /\ (Range(CreateOrder(dbType)) \subseteq tables => tables' = tables)]_vars
  /\ [](ddl.op = "drop" =>
          /\ ~ddl.failed
          /\ ddl.stmts = Reverse(CreateOrder(dbType))
          /\ ddl.stmts[Len(ddl.stmts)] = "health_records"
          /\ tables = {}
          /\ db = EmptyDb)

\* C22 witness: createTables has run a second time, on a schema that holds
\* a parent row and a child row
C22_Witness ==
  /\ ddl.op = "create" /\ calls = 2
  /\ tables = Range(CreateOrder(dbType))
  /\ db.hr # {}
  /\ \E t \in ChildTables : db.ch[t] # {}

\* C26: after every insertRecords call, of the SQLite mapper and of the MySQL
\* mapper, the returned counters add up, inserted + errors = totalRecords,
\* and inserted counts no record of a transaction that did not commit.
C26_CountersAddUp ==
  prevCall.made =>
    /\ results.totalRecords = Len(prevCall.recs)
    /\ results.inserted + results.errors = results.totalRecords
    /\ (txCommitted = 0 => results.inserted = 0)

\* the rows table by table that carry the id of record r
RowsOf(d, r) ==
  [hr |-> {x \in d.hr : x.id = r.id},
   ch |-> [t \in ChildTables |-> {x \in d.ch[t] : x.record_id = r.id}]]

\* C27: a record that DataMapper.insertRecords reports as an error leaves
\* no trace: when no row carried its id before the call and no other record
\* of the list has its id, no table holds a row with its id after the call.
C27_ErrorLeavesNoTrace ==
  (prevCall.made /\ dbType = "sqlite") =>
    \A i \in 1..Len(prevCall.recs) :
      LET r == prevCall.recs[i]
      IN  ( /\ Throws(r)
            /\ RowsOf(prevCall.db, r) = RowsOf(EmptyDb, r)
            /\ \A j \in 1..Len(prevCall.recs) :
                 j # i => prevCall.recs[j].id # r.id )
          => RowsOf(db, r) = RowsOf(EmptyDb, r)

\* every row of a child table refers to a row of health_records
ReferentialIntegrity(d) ==
  \A t \in ChildTables : \A x \in d.ch[t] : \E y \in d.hr : y.id = x.record_id

\* C28: on the SQLite mapper every state reached by insertRecords and
\* deleteBySource calls from the fresh schema has referential integrity, and
\* insertSingleRecord writes the health_records row of a record before its
\* child rows: wherever the statements of a record of the list stop, no
\* child row is without its parent.
C28_ReferentialIntegrity ==
  dbType = "sqlite" =>
    /\ ReferentialIntegrity(db)
    /\ \A i \in 1..Len(records) :
         ReferentialIntegrity(InsertSingleRecord(db, records[i]).db)

\* C28 witness: a deleteBySource that removed child rows of one source from
\* a database that still holds a record of another source with its child row
C28_Witness ==
  /\ dbType = "sqlite"
  /\ lastOp.op = "delete" /\ lastOp.tx = 1
  /\ lastOp.ret.deletedRelated >= 1
  /\ db.hr # {}
  /\ \E t \in ChildTables : db.ch[t] # {}

\* C30: processDataSource closes the database it opened on every path:
\* whenever it has returned, the processor holds no open connection.
C30_DatabaseClosedOnReturn == pc = "idle" => ~dbOpen

\* C23: the load that the constructor started never discards an update of
\* the cache: a path marked in the running call of processFiles, and not
\* modified since, is mapped to the recorded hash until the call has saved
\* the cache.
C23_LoadKeepsMarks ==
  pc \in {"procFile", "mark", "save"} =>
    \A p \in markedThisRun : checksumCache[p] = MD5(files[p])

(***************************************************************************)
(* The incremental loop of processFiles with what processFile made of each *)
(* file recorded (lastRead), for a processor whose extractor can catch its *)
(* own failure: NikePlusProcessor.processFile (line 192).                  *)
(***************************************************************************)
\* processFile of an extractor that catches the failure itself: the error
\* is logged, [] is returned, and processFiles goes on to mark the file
ProcessFileCaught ==
  /\ pc = "procFile"
  /\ errors' = errors + 1
  /\ lastRead' = [path |-> filesToProcess[idx], content |-> Missing,
                  outcome |-> "caught"]
  /\ IF incremental THEN pc' = "mark" /\ UNCHANGED idx ELSE PfNext
  /\ UNCHANGED <<files, cacheFile, checksumCache, loadPc, filePaths,
                 incremental, useDb, changedFiles, filesToProcess, processed,
                 nextId, dbOpen, env, runs, procs, histVars, dbVars>>

\* what ProcessFile makes of the file it reads
ReadOf(p) ==
  [path |-> p, content |-> files[p],
   outcome |-> IF files[p] = Missing THEN "threw" ELSE "ok"]

MarkUnchanged == UNCHANGED <<stVars, fnVars, schVars>>

\* a processor whose load is over, no cache file, every input file present,
\* incremental runs without a database
InitMark ==
  /\ files = [p \in Paths |-> 1]
  /\ cacheFile = [state |-> "missing", data |-> EmptyCache]
  /\ checksumCache = EmptyCache
  /\ loadPc = "done"
  /\ pc = "idle"
  /\ filePaths \in RunLists
  /\ incremental = FALSE
  /\ useDb = FALSE
  /\ changedFiles = <<>>
  /\ filesToProcess = <<>>
  /\ idx = 1
  /\ processed = <<>>
  /\ errors = 0
  /\ nextId = 1
  /\ dbOpen = FALSE
  /\ env = 0 /\ runs = 0 /\ procs = 1
  /\ gcfStable = TRUE
  /\ markedThisRun = {}
  /\ cycleSet = {}
  /\ handed = FALSE
  /\ runEnv = 0
  /\ storeLog = <<>>
  /\ DbFresh
  /\ dbType = "sqlite"
  /\ StIdle /\ FnIdle /\ SchIdle /\ MarkIdle

NextMark ==
  \/ \E p \in Paths, c \in FileStates :
       ModifyFile(p, c) /\ UNCHANGED lastRead /\ MarkUnchanged
  \/ StartRun(TRUE) /\ lastRead' = NoRead /\ MarkUnchanged
  \/ GcfPathExists /\ UNCHANGED lastRead /\ MarkUnchanged
  \/ GcfHasFileChanged /\ UNCHANGED lastRead /\ MarkUnchanged
  \/ GcfReturn /\ UNCHANGED lastRead /\ MarkUnchanged
  \/ ProcessFile /\ lastRead' = ReadOf(filesToProcess[idx]) /\ MarkUnchanged
  \/ ProcessFileCaught /\ MarkUnchanged
  \/ MarkFileProcessed /\ UNCHANGED lastRead /\ MarkUnchanged
  \/ \E ok \in BOOLEAN :
       SaveChecksumCache(ok) /\ UNCHANGED lastRead /\ MarkUnchanged
  \/ ProcessFilesReturn /\ UNCHANGED lastRead /\ MarkUnchanged
  \/ FinishRun /\ lastRead' = NoRead /\ MarkUnchanged

SpecMark == InitMark /\ [][NextMark]_vars

\* C24: the hash that markFileProcessed records for a file is the hash of
\* the content that processFile read.
C24_MarkedHashIsOfContentRead ==
  [][(pc = "mark" /\ lastRead.outcome = "ok"
        /\ filesToProcess[idx] \in markedThisRun')
       => checksumCache'[filesToProcess[idx]] = MD5(lastRead.content)]_vars

\* C25: markFileProcessed records a file only if its processing succeeded:
\* not when processFile threw, and not when the extractor caught the failure
\* and returned no records.
C25_MarkOnlyAfterSuccess ==
  [][(pc = "mark" /\ filesToProcess[idx] \in markedThisRun')
       => lastRead.outcome = "ok"]_vars

====
